---- MODULE Spec2Model ----
(***************************************************************************)
(* Diet planning script (src/intial_testing.py).                           *)
(*                                                                         *)
(* The script is straight-line code: it builds six decision variables,     *)
(* bounds them, builds a constrained model (objective + five constraints), *)
(* submits it to the hybrid sampler, filters and prints the answer, then   *)
(* replaces the objective and submits a second time.  The only source of   *)
(* nondeterminism is what the sampler returns.                             *)
(*                                                                         *)
(* Numbers.  Python floats are modelled as exact rationals <<n, d>> in     *)
(* lowest terms with d > 0 (2.5 is <<5, 2>>), so that sums, products and   *)
(* quotients are computed as the code computes them, without rounding.     *)
(***************************************************************************)
EXTENDS Integers, Sequences, FiniteSets, TLC

(***************************************************************************)
(* Bounds of the model.                                                    *)
(***************************************************************************)
\* The sampler returns at most MaxSamples distinct rows per call.
MaxSamples == 2
\* The quantities up to MaxQty, in steps of one half, are tried against the
\* bounds of the variables (the largest upper bound is 200/9).
MaxQty == 23

(***************************************************************************)
(* Rational arithmetic.                                                    *)
(***************************************************************************)
Abs(x) == IF x < 0 THEN -x ELSE x

RECURSIVE GCD(_, _)
GCD(a, b) == IF b = 0 THEN a ELSE GCD(b, a % b)

\* n/d in lowest terms, the denominator positive.
Rat(n, d) ==
    IF d = 1 THEN <<n, 1>>
    ELSE LET s == IF d < 0 THEN -1 ELSE 1
             g == GCD(Abs(n), Abs(d))
         IN  <<(s * n) \div g, (s * d) \div g>>

Num(n) == <<n, 1>>
RAdd(a, b) == Rat(a[1] * b[2] + b[1] * a[2], a[2] * b[2])
RNeg(a) == <<-a[1], a[2]>>
RMul(a, b) == Rat(a[1] * b[1], a[2] * b[2])
RDiv(a, b) == Rat(a[1] * b[2], a[2] * b[1])
RLeq(a, b) == a[1] * b[2] <= b[1] * a[2]
RLt(a, b) == a[1] * b[2] < b[1] * a[2]
IsWhole(a) == a[2] = 1

RECURSIVE Pow10(_)
Pow10(k) == IF k = 0 THEN 1 ELSE 10 * Pow10(k - 1)

\* Python's round(x, ndigits): to the nearest multiple of 10^-ndigits, a tie
\* going to the even one.
round(x, ndigits) ==
    LET p == Pow10(ndigits)
        n == x[1] * p
        d == x[2]
        fl == n \div d
        twice == 2 * (n - fl * d)
        r == IF twice < d THEN fl
             ELSE IF twice > d THEN fl + 1
             ELSE IF fl % 2 = 0 THEN fl ELSE fl + 1
    IN  Rat(r, p)

(***************************************************************************)
(* The data of the formulation.                                            *)
(***************************************************************************)
foods ==
    [rice    |-> [Calories |-> 100, Protein |-> 3, Fat |-> 1, Carbs |-> 22,
                  Fiber |-> 2, Taste |-> 7, Cost |-> <<5, 2>>,
                  Units |-> "continuous"],
     tofu    |-> [Calories |-> 140, Protein |-> 17, Fat |-> 9, Carbs |-> 3,
                  Fiber |-> 2, Taste |-> 2, Cost |-> <<4, 1>>,
                  Units |-> "continuous"],
     banana  |-> [Calories |-> 90, Protein |-> 1, Fat |-> 0, Carbs |-> 23,
                  Fiber |-> 3, Taste |-> 10, Cost |-> <<1, 1>>,
                  Units |-> "discrete"],
     lentils |-> [Calories |-> 150, Protein |-> 9, Fat |-> 0, Carbs |-> 25,
                  Fiber |-> 4, Taste |-> 3, Cost |-> <<13, 10>>,
                  Units |-> "continuous"],
     bread   |-> [Calories |-> 270, Protein |-> 9, Fat |-> 3, Carbs |-> 50,
                  Fiber |-> 3, Taste |-> 5, Cost |-> <<1, 4>>,
                  Units |-> "continuous"],
     avocado |-> [Calories |-> 300, Protein |-> 4, Fat |-> 30, Carbs |-> 20,
                  Fiber |-> 14, Taste |-> 5, Cost |-> <<2, 1>>,
                  Units |-> "discrete"]]

\* foods.keys(): a dict iterates in insertion order.
foods_keys == <<"rice", "tofu", "banana", "lentils", "bread", "avocado">>

\* foods[food][category] as a number (Cost is a float, the others are ints).
FoodValue(food, category) ==
    IF category = "Cost" THEN foods[food].Cost ELSE Num(foods[food][category])

min_nutrients == [Protein |-> 50, Fat |-> 30, Carbs |-> 130, Fiber |-> 30]

\* min_nutrients.items(): insertion order.
min_nutrients_keys == <<"Protein", "Fat", "Carbs", "Fiber">>

max_calories == 2000

(***************************************************************************)
(* The library's linear models.  A model is a record                       *)
(*   variables : label -> [vartype, lower_bound, upper_bound]              *)
(*   linear    : label -> coefficient                                      *)
(* An upper bound of <<>> is the vartype's default maximum (no bound set). *)
(***************************************************************************)
NoBound == <<>>

\* Real with a lower bound that is not zero.
Real_NegativeLowerBound(label) ==
    [variables |-> (label :> [vartype |-> "REAL", lower_bound |-> Num(-1),
                              upper_bound |-> NoBound]),
     linear |-> (label :> Num(1))]

\* dimod.Real(label): one real variable, coefficient 1, lower bound 0.
Real(label) ==
    [variables |-> (label :> [vartype |-> "REAL", lower_bound |-> Num(0),
                              upper_bound |-> NoBound]),
     linear |-> (label :> Num(1))]

\* dimod.Integer(label): one integer variable, coefficient 1, lower bound 0.
Integer(label) ==
    [variables |-> (label :> [vartype |-> "INTEGER", lower_bound |-> Num(0),
                              upper_bound |-> NoBound]),
     linear |-> (label :> Num(1))]

\* qm.set_upper_bound(v, ub): v must be a variable of qm.
set_upper_bound(qm, v, ub) ==
    [qm EXCEPT !.variables[v].upper_bound = ub]

upper_bound(qm, v) == qm.variables[v].upper_bound

\* The model with no variable: the start value 0 of Python's sum().
ZeroModel == [variables |-> <<>>, linear |-> <<>>]

\* qm * c
Scale(qm, c) ==
    [qm EXCEPT !.linear = [v \in DOMAIN qm.linear |-> RMul(qm.linear[v], c)]]

\* -qm
Negate(qm) == Scale(qm, Num(-1))

\* a + b: the variables of both, a variable of both keeping a's bounds.
Plus(a, b) ==
    LET labels == DOMAIN a.variables \cup DOMAIN b.variables
    IN  [variables |-> [v \in labels |->
                          IF v \in DOMAIN a.variables THEN a.variables[v]
                          ELSE b.variables[v]],
         linear |-> [v \in labels |->
                       RAdd(IF v \in DOMAIN a.linear THEN a.linear[v] ELSE Num(0),
                            IF v \in DOMAIN b.linear THEN b.linear[v] ELSE Num(0))]]

Min(a, b) == IF a < b THEN a ELSE b

\* sum(q * c for q, c in zip(quantity, (foods[food][category] for food in foods)))
RECURSIVE SumZip(_, _, _)
SumZip(quantity, category, n) ==
    IF n = 0 THEN ZeroModel
    ELSE Plus(SumZip(quantity, category, n - 1),
              Scale(quantity[n], FoodValue(foods_keys[n], category)))

total_mix(quantity, category) ==
    SumZip(quantity, category, Min(Len(quantity), Len(foods_keys)))

\* The value of the linear expression `linear` (label -> coefficient) at a sample.
RECURSIVE SumOver(_, _, _)
SumOver(linear, sample, labels) ==
    IF labels = {} THEN Num(0)
    ELSE LET v == CHOOSE x \in labels : TRUE
         IN  RAdd(RMul(linear[v], sample[v]),
                  SumOver(linear, sample, labels \ {v}))

Value(linear, sample) == SumOver(linear, sample, DOMAIN linear)

(***************************************************************************)
(* The constrained model: variables (label -> bounds and type), the        *)
(* objective (label -> coefficient) and the labelled constraints in the    *)
(* order they were added.                                                  *)
(***************************************************************************)
\* dimod.ConstrainedQuadraticModel()
ConstrainedQuadraticModel ==
    [variables |-> <<>>, objective |-> <<>>, constraints |-> <<>>]

\* Adding an expression's variables to the model: a variable the model has
\* already is kept as it is.
AddVariables(variables, qm) ==
    [v \in DOMAIN variables \cup DOMAIN qm.variables |->
        IF v \in DOMAIN variables THEN variables[v] ELSE qm.variables[v]]

\* set_objective rebuilding the model, its constraints lost.
set_objective_DropsConstraints(model, qm) ==
    [variables |-> qm.variables, objective |-> qm.linear, constraints |-> <<>>]

\* cqm.set_objective(qm): the old objective is dropped, the variables, their
\* bounds and the constraints stay.
set_objective(model, qm) ==
    LET vs == AddVariables(model.variables, qm)
    IN  [model EXCEPT
           !.variables = vs,
           !.objective = [v \in DOMAIN vs |->
                            IF v \in DOMAIN qm.linear THEN qm.linear[v]
                            ELSE Num(0)]]

\* cqm.add_constraint(lhs <sense> rhs, label=label)
add_constraint(model, lhs, sense, rhs, label) ==
    [model EXCEPT
       !.variables = AddVariables(model.variables, lhs),
       !.constraints = Append(@, [label |-> label, lhs |-> lhs.linear,
                                  sense |-> sense, rhs |-> Num(rhs)])]

\* A sample satisfies a constraint.
Satisfied(constraint, sample) ==
    LET lhs_energy == Value(constraint.lhs, sample)
    IN  IF constraint.sense = "<=" THEN RLeq(lhs_energy, constraint.rhs)
        ELSE RLeq(constraint.rhs, lhs_energy)

\* A variable admits the value q: inside its bounds, and a whole number for
\* an integer variable.
Admits(variable, q) ==
    /\ RLeq(variable.lower_bound, q)
    /\ \/ variable.upper_bound = NoBound
       \/ RLeq(q, variable.upper_bound)
    /\ variable.vartype = "INTEGER" => IsWhole(q)

\* A sample gives every variable of the model a value the variable admits.
InDomain(variables, sample) ==
    /\ DOMAIN sample = DOMAIN variables
    /\ \A v \in DOMAIN variables : Admits(variables[v], sample[v])

(***************************************************************************)
(* The sampler.  It is an external service: what it returns is a choice    *)
(* of at most MaxSamples assignments from SamplePool that lie inside the   *)
(* submitted model's variable domains, each with its energy (the value of  *)
(* the submitted objective) and its feasibility (every submitted           *)
(* constraint satisfied).                                                  *)
(***************************************************************************)
\* An assignment, its quantities given in the order of foods_keys.
Assignment(qs) ==
    [food \in {foods_keys[i] : i \in 1..Len(foods_keys)} |->
        LET i == CHOOSE j \in 1..Len(foods_keys) : foods_keys[j] = food
        IN  Rat(qs[i][1], qs[i][2])]

\* The assignments the sampler is offered.  The first two satisfy the five
\* constraints.  The last five lie outside the domains of the script's
\* variables (a negative quantity, half a banana, quantities above an upper
\* bound): a sampler that respects the domains never returns them.
SamplePool ==
    << Assignment(<< <<0,1>>, <<1,2>>, <<5,1>>, <<0,1>>, <<4,1>>, <<1,1>> >>),
      Assignment(<< <<8,1>>, <<1,1>>, <<8,1>>, <<0,1>>, <<0,1>>, <<1,1>> >>),
      Assignment(<< <<0,1>>, <<0,1>>, <<22,1>>, <<0,1>>, <<0,1>>, <<0,1>> >>),
      Assignment(<< <<0,1>>, <<57,4>>, <<0,1>>, <<0,1>>, <<0,1>>, <<0,1>> >>),
      Assignment(<< <<0,1>>, <<0,1>>, <<0,1>>, <<0,1>>, <<4,1>>, <<0,1>> >>),
      Assignment(<< <<0,1>>, <<0,1>>, <<1,1>>, <<0,1>>, <<0,1>>, <<0,1>> >>),
      Assignment(<< <<0,1>>, <<0,1>>, <<0,1>>, <<0,1>>, <<2,1>>, <<0,1>> >>),
      Assignment(<< <<-1,1>>, <<2,1>>, <<3,1>>, <<3,2>>, <<1,1>>, <<1,1>> >>),
      Assignment(<< <<0,1>>, <<1,1>>, <<1,2>>, <<4,1>>, <<0,1>>, <<1,1>> >>),
      Assignment(<< <<41,2>>, <<0,1>>, <<0,1>>, <<0,1>>, <<0,1>>, <<0,1>> >>),
      Assignment(<< <<0,1>>, <<0,1>>, <<23,1>>, <<0,1>>, <<0,1>>, <<0,1>> >>),
      Assignment(<< <<0,1>>, <<0,1>>, <<0,1>>, <<0,1>>, <<0,1>>, <<7,1>> >>) >>

RECURSIVE SubsetsUpTo(_, _)
SubsetsUpTo(S, k) ==
    IF k = 0 THEN {{}}
    ELSE LET smaller == SubsetsUpTo(S, k - 1)
         IN  smaller \cup {T \cup {x} : T \in smaller, x \in S}

\* The row of the sample set for one sample of a submitted model.
Row(model, sample) ==
    [sample |-> sample,
     energy |-> Value(model.objective, sample),
     is_feasible |-> \A i \in 1..Len(model.constraints) :
                        Satisfied(model.constraints[i], sample)]

\* sampler.sample_cqm(model): the sample sets the sampler may return.
sample_cqm(model) ==
    LET admitted == {i \in 1..Len(SamplePool) :
                       InDomain(model.variables, SamplePool[i])}
        rows == [i \in admitted |-> Row(model, SamplePool[i])]
    IN  {{rows[i] : i \in S} : S \in SubsetsUpTo(admitted, MaxSamples)}

\* A filter that keeps every row.
filter_KeepsAll(rows) == rows

\* sampleset.filter(lambda row: row.is_feasible)
filter(rows) == {r \in rows : r.is_feasible}

\* sampleset.first: a row of lowest energy (none when the set is empty, where
\* the script stops with an exception).
first(rows) == {r \in rows : \A o \in rows : RLeq(r.energy, o.energy)}

\* What print_diet(sample) prints, line by line.
print_diet(model, sample) ==
    LET diet == [food \in DOMAIN sample |-> round(sample[food], 1)]
        taste_total == Value([food \in DOMAIN sample |->
                                 FoodValue(food, "Taste")], sample)
        cost_total == Value([food \in DOMAIN sample |->
                                FoodValue(food, "Cost")], sample)
    IN  << <<"Diet", diet>>,
           <<"Total", round(taste_total, 2), round(cost_total, 2)>> >>
        \o [i \in 1..Len(model.constraints) |->
              <<"Constraint", model.constraints[i].label,
                model.constraints[i].rhs,
                round(Value(model.constraints[i].lhs, sample), 0)>>]

(***************************************************************************)
(* The state of the script.                                                *)
(***************************************************************************)
VARIABLES
    pc,                        \* the statement to run next
    quantities,                \* the list of variable expressions
    ind,                       \* the bound loop's index (0-based, as enumerate)
    cqm,                       \* the constrained model
    nutrient_ind,              \* the position of the loop over min_nutrients
    sampleset,
    feasible_sampleset,
    best,
    sampleset_taste,
    feasible_sampleset_taste,
    best_taste,
    stdout,                    \* the lines printed so far
    submitted                  \* the models handed to the sampler so far

vars == <<pc, quantities, ind, cqm, nutrient_ind, sampleset, feasible_sampleset,
          best, sampleset_taste, feasible_sampleset_taste, best_taste, stdout,
          submitted>>

NoRow == [sample |-> <<>>, energy |-> Num(0), is_feasible |-> FALSE]

Init ==
    /\ pc = "variables"
    /\ quantities = <<>>
    /\ ind = 0
    /\ cqm = ConstrainedQuadraticModel
    /\ nutrient_ind = 1
    /\ sampleset = {}
    /\ feasible_sampleset = {}
    /\ best = <<>>
    /\ sampleset_taste = {}
    /\ feasible_sampleset_taste = {}
    /\ best_taste = NoRow
    /\ stdout = <<>>
    /\ submitted = <<>>

\* The condition of the comprehension inverted.
Variable_Inverted(food) ==
    IF foods[food].Units = "continuous"
    THEN [variables |-> (food :> [vartype |-> "INTEGER", lower_bound |-> Num(0),
                                  upper_bound |-> NoBound]),
          linear |-> (food :> Num(1))]
    ELSE [variables |-> (food :> [vartype |-> "REAL", lower_bound |-> Num(0),
                                  upper_bound |-> NoBound]),
          linear |-> (food :> Num(1))]

\* One element of the list comprehension of lines 34-36.
Variable(food) ==
    IF foods[food].Units = "continuous" THEN Real(food) ELSE Integer(food)

\* Lines 34-38: the variables, and the print of the first.
MakeVariables ==
    /\ pc = "variables"
    /\ quantities' = [i \in 1..Len(foods_keys) |-> Variable(foods_keys[i])]
    /\ stdout' = Append(stdout, <<"Expression", quantities'[1]>>)
    /\ pc' = "bounds"
    /\ UNCHANGED <<ind, cqm, nutrient_ind, sampleset, feasible_sampleset, best,
                   sampleset_taste, feasible_sampleset_taste, best_taste,
                   submitted>>

\* The bound computed from the wrong category.
UpperBoundFor_WrongCategory(food) ==
    RDiv(Num(max_calories), FoodValue(food, "Protein"))

\* Line 46: ub = max_calories / foods[food]["Calories"]
UpperBoundFor(food) == RDiv(Num(max_calories), FoodValue(food, "Calories"))

\* A loop that stops one food early.
BoundStep_StopsEarly(qs, i, food) ==
    IF i + 1 < Len(qs)
    THEN [qs EXCEPT ![i + 1] = set_upper_bound(qs[i + 1], food,
                                               RDiv(Num(max_calories),
                                                    FoodValue(food, "Calories")))]
    ELSE qs

\* The body of the loop of lines 45-47 for (ind, food).
BoundStep(qs, i, food) ==
    [qs EXCEPT ![i + 1] = set_upper_bound(qs[i + 1], food, UpperBoundFor(food))]

\* Lines 45-47: one iteration of the bound setting loop.
SetBound ==
    /\ pc = "bounds"
    /\ ind < Len(foods_keys)
    /\ quantities' = BoundStep(quantities, ind, foods_keys[ind + 1])
    /\ ind' = ind + 1
    /\ UNCHANGED <<pc, cqm, nutrient_ind, sampleset, feasible_sampleset, best,
                   sampleset_taste, feasible_sampleset_taste, best_taste,
                   stdout, submitted>>

\* Line 51: the loop is over; print(quantities[0].upper_bound("rice")).
PrintBound ==
    /\ pc = "bounds"
    /\ ind = Len(foods_keys)
    /\ stdout' = Append(stdout, <<"UpperBound", upper_bound(quantities[1], "rice")>>)
    /\ pc' = "instantiate"
    /\ UNCHANGED <<quantities, ind, cqm, nutrient_ind, sampleset,
                   feasible_sampleset, best, sampleset_taste,
                   feasible_sampleset_taste, best_taste, submitted>>

\* Line 77: cqm = dimod.ConstrainedQuadraticModel()
Instantiate ==
    /\ pc = "instantiate"
    /\ cqm' = ConstrainedQuadraticModel
    /\ pc' = "objective"
    /\ UNCHANGED <<quantities, ind, nutrient_ind, sampleset, feasible_sampleset,
                   best, sampleset_taste, feasible_sampleset_taste, best_taste,
                   stdout, submitted>>

\* The combined objective with taste not negated.
CombinedObjective_TasteNotNegated(qs) ==
    Plus(total_mix(qs, "Taste"), Scale(total_mix(qs, "Cost"), Num(6)))

\* Line 89: -total_mix(quantities, "Taste") + 6*total_mix(quantities, "Cost")
CombinedObjective(qs) ==
    Plus(Negate(total_mix(qs, "Taste")), Scale(total_mix(qs, "Cost"), Num(6)))

\* Line 89: cqm.set_objective(...)
SetObjective ==
    /\ pc = "objective"
    /\ cqm' = set_objective(cqm, CombinedObjective(quantities))
    /\ pc' = "calories"
    /\ UNCHANGED <<quantities, ind, nutrient_ind, sampleset, feasible_sampleset,
                   best, sampleset_taste, feasible_sampleset_taste, best_taste,
                   stdout, submitted>>

\* Line 95: the calorie constraint.
CaloriesConstraint(model, qs) ==
    add_constraint(model, total_mix(qs, "Calories"), "<=", max_calories, "Calories")

AddCalories ==
    /\ pc = "calories"
    /\ cqm' = CaloriesConstraint(cqm, quantities)
    /\ pc' = "nutrients"
    /\ UNCHANGED <<quantities, ind, nutrient_ind, sampleset, feasible_sampleset,
                   best, sampleset_taste, feasible_sampleset_taste, best_taste,
                   stdout, submitted>>

\* A nutrient constraint with the comparison turned around.
NutrientConstraint_AtMost(model, qs, nutrient, amount) ==
    add_constraint(model, total_mix(qs, nutrient), "<=", amount, nutrient)

\* Line 98: the constraint of one nutrient.
NutrientConstraint(model, qs, nutrient, amount) ==
    add_constraint(model, total_mix(qs, nutrient), ">=", amount, nutrient)

\* Lines 97-98: one iteration of the loop over min_nutrients.items().
AddNutrient ==
    /\ pc = "nutrients"
    /\ nutrient_ind <= Len(min_nutrients_keys)
    /\ LET nutrient == min_nutrients_keys[nutrient_ind]
       IN  cqm' = NutrientConstraint(cqm, quantities, nutrient,
                                     min_nutrients[nutrient])
    /\ nutrient_ind' = nutrient_ind + 1
    /\ pc' = IF nutrient_ind = Len(min_nutrients_keys) THEN "solve" ELSE pc
    /\ UNCHANGED <<quantities, ind, sampleset, feasible_sampleset, best,
                   sampleset_taste, feasible_sampleset_taste, best_taste,
                   stdout, submitted>>

\* Line 103: sampleset = sampler.sample_cqm(cqm)
Solve ==
    /\ pc = "solve"
    /\ submitted' = Append(submitted, cqm)
    /\ \E rows \in sample_cqm(cqm) : sampleset' = rows
    /\ pc' = "filter"
    /\ UNCHANGED <<quantities, ind, cqm, nutrient_ind, feasible_sampleset, best,
                   sampleset_taste, feasible_sampleset_taste, best_taste, stdout>>

\* Lines 104-105: the feasible rows, and the count line.
Filter ==
    /\ pc = "filter"
    /\ feasible_sampleset' = filter(sampleset)
    /\ stdout' = Append(stdout, <<"Count", Cardinality(feasible_sampleset'),
                                  Cardinality(sampleset)>>)
    /\ pc' = "best"
    /\ UNCHANGED <<quantities, ind, cqm, nutrient_ind, sampleset, best,
                   sampleset_taste, feasible_sampleset_taste, best_taste,
                   submitted>>

\* Line 121: best = feasible_sampleset.first.sample
Best ==
    /\ pc = "best"
    /\ \/ /\ first(feasible_sampleset) # {}
          /\ \E row \in first(feasible_sampleset) : best' = row.sample
          /\ pc' = "print_diet"
       \/ /\ first(feasible_sampleset) = {}
          /\ best' = best
          /\ pc' = "raised"
    /\ UNCHANGED <<quantities, ind, cqm, nutrient_ind, sampleset,
                   feasible_sampleset, sampleset_taste,
                   feasible_sampleset_taste, best_taste, stdout, submitted>>

\* Line 122: print_diet(best)
PrintDiet ==
    /\ pc = "print_diet"
    /\ stdout' = stdout \o print_diet(cqm, best)
    /\ pc' = "tune"
    /\ UNCHANGED <<quantities, ind, cqm, nutrient_ind, sampleset,
                   feasible_sampleset, best, sampleset_taste,
                   feasible_sampleset_taste, best_taste, submitted>>

\* Line 133: -total_mix(quantities, "Taste")
TasteObjective(qs) == Negate(total_mix(qs, "Taste"))

\* Line 133: cqm.set_objective(-total_mix(quantities, "Taste"))
Tune ==
    /\ pc = "tune"
    /\ cqm' = set_objective(cqm, TasteObjective(quantities))
    /\ pc' = "solve_taste"
    /\ UNCHANGED <<quantities, ind, nutrient_ind, sampleset, feasible_sampleset,
                   best, sampleset_taste, feasible_sampleset_taste, best_taste,
                   stdout, submitted>>

\* Line 134: sampleset_taste = sampler.sample_cqm(cqm)
SolveTaste ==
    /\ pc = "solve_taste"
    /\ submitted' = Append(submitted, cqm)
    /\ \E rows \in sample_cqm(cqm) : sampleset_taste' = rows
    /\ pc' = "filter_taste"
    /\ UNCHANGED <<quantities, ind, cqm, nutrient_ind, sampleset,
                   feasible_sampleset, best, feasible_sampleset_taste,
                   best_taste, stdout>>

\* Line 135: feasible_sampleset_taste = sampleset_taste.filter(...)
FilterTaste ==
    /\ pc = "filter_taste"
    /\ feasible_sampleset_taste' = filter(sampleset_taste)
    /\ pc' = "best_taste"
    /\ UNCHANGED <<quantities, ind, cqm, nutrient_ind, sampleset,
                   feasible_sampleset, best, sampleset_taste, best_taste,
                   stdout, submitted>>

\* Line 136: best_taste = feasible_sampleset_taste.first
BestTaste ==
    /\ pc = "best_taste"
    /\ \/ /\ first(feasible_sampleset_taste) # {}
          /\ \E row \in first(feasible_sampleset_taste) : best_taste' = row
          /\ pc' = "print_energy"
       \/ /\ first(feasible_sampleset_taste) = {}
          /\ best_taste' = best_taste
          /\ pc' = "raised"
    /\ UNCHANGED <<quantities, ind, cqm, nutrient_ind, sampleset,
                   feasible_sampleset, best, sampleset_taste,
                   feasible_sampleset_taste, stdout, submitted>>

\* Line 137: print(round(best_taste.energy))
PrintEnergy ==
    /\ pc = "print_energy"
    /\ stdout' = Append(stdout, <<"Energy", round(best_taste.energy, 0)>>)
    /\ pc' = "print_diet_taste"
    /\ UNCHANGED <<quantities, ind, cqm, nutrient_ind, sampleset,
                   feasible_sampleset, best, sampleset_taste,
                   feasible_sampleset_taste, best_taste, submitted>>

\* Line 138: print_diet(best_taste.sample)
PrintDietTaste ==
    /\ pc = "print_diet_taste"
    /\ stdout' = stdout \o print_diet(cqm, best_taste.sample)
    /\ pc' = "done"
    /\ UNCHANGED <<quantities, ind, cqm, nutrient_ind, sampleset,
                   feasible_sampleset, best, sampleset_taste,
                   feasible_sampleset_taste, best_taste, submitted>>

Next ==
    \/ MakeVariables
    \/ SetBound
    \/ PrintBound
    \/ Instantiate
    \/ SetObjective
    \/ AddCalories
    \/ AddNutrient
    \/ Solve
    \/ Filter
    \/ Best
    \/ PrintDiet
    \/ Tune
    \/ SolveTaste
    \/ FilterTaste
    \/ BestTaste
    \/ PrintEnergy
    \/ PrintDietTaste

Spec == Init /\ [][Next]_vars

(***************************************************************************)
(* Properties.                                                             *)
(***************************************************************************)
Foods == {foods_keys[i] : i \in 1..Len(foods_keys)}

\* The quantities -MaxQty/2 .. MaxQty in steps of one half.
QuantityGrid == {Rat(k, 2) : k \in (-MaxQty)..(2 * MaxQty)}

\* sum over foods of quantity * foods[food][category], from the data.
RECURSIVE DirectSum(_, _, _)
DirectSum(sample, category, n) ==
    IF n = 0 THEN Num(0)
    ELSE RAdd(DirectSum(sample, category, n - 1),
              RMul(sample[foods_keys[n]], FoodValue(foods_keys[n], category)))

DirectTotal(sample, category) == DirectSum(sample, category, Len(foods_keys))

\* The five conditions of the diet, from the data.
DirectFeasible(sample) ==
    /\ RLeq(DirectTotal(sample, "Calories"), Num(max_calories))
    /\ \A n \in DOMAIN min_nutrients :
         RLeq(Num(min_nutrients[n]), DirectTotal(sample, n))

\* Every row the sampler has returned so far.
ReturnedRows == sampleset \cup sampleset_taste

\* The variable records the script holds: those of quantities and of cqm.
VariableOf(food) ==
    LET i == CHOOSE j \in 1..Len(foods_keys) : foods_keys[j] = food
    IN  quantities[i].variables[food]

BoundsAreSet == pc # "variables" /\ ind = Len(foods_keys)

\* C1: after the bound-setting loop every food's upper bound is
\* max_calories / Calories (20 for rice); so no quantity a food's variable
\* admits, and no quantity of a returned sample, has by itself more than
\* max_calories calories, for the integer foods as for the continuous ones.
C1_UpperBoundKeepsCalories ==
    BoundsAreSet =>
      /\ \A food \in Foods :
           /\ upper_bound(quantities[CHOOSE j \in 1..Len(foods_keys) :
                                        foods_keys[j] = food], food) # NoBound
           /\ LET variable == VariableOf(food)
                  calories == FoodValue(food, "Calories")
              IN  /\ RMul(variable.upper_bound, calories) = Num(max_calories)
                  /\ \A q \in QuantityGrid :
                       Admits(variable, q) =>
                         RLeq(RMul(q, calories), Num(max_calories))
                  /\ food \in DOMAIN cqm.variables =>
                       cqm.variables[food] = variable
      /\ VariableOf("rice").upper_bound = Num(20)
      /\ \A row \in ReturnedRows : \A food \in Foods :
           RLeq(RMul(row.sample[food], FoodValue(food, "Calories")),
                Num(max_calories))

\* The sampler has returned 22 bananas, the most the bound 200/9 admits.
C1_Witness ==
    /\ BoundsAreSet
    /\ VariableOf("banana").upper_bound = <<200, 9>>
    /\ \E row \in sampleset : row.sample["banana"] = Num(22)

\* The Diet lines printed so far.
DietLines == {stdout[k][2] : k \in {j \in 1..Len(stdout) : stdout[j][1] = "Diet"}}

\* C2: every food's variable has lower bound zero with nothing configured, so
\* no admitted quantity, no returned sample and no printed diet gives a food,
\* continuous or discrete, a negative quantity.
C2_NoNegativeQuantity ==
    /\ pc # "variables" =>
         \A food \in Foods :
           LET variable == VariableOf(food)
           IN  /\ variable.lower_bound = Num(0)
               /\ \A q \in QuantityGrid : Admits(variable, q) => RLeq(Num(0), q)
    /\ \A v \in DOMAIN cqm.variables : cqm.variables[v].lower_bound = Num(0)
    /\ \A row \in ReturnedRows : \A food \in Foods :
         RLeq(Num(0), row.sample[food])
    /\ \A diet \in DietLines : \A food \in Foods : RLeq(Num(0), diet[food])

\* A diet has been printed, of a sample with a zero quantity.
C2_Witness ==
    /\ pc = "tune"
    /\ \E diet \in DietLines : diet["rice"] = Num(0) /\ diet["avocado"] = Num(1)

\* C3: quantities holds one variable per food, in the order of foods and
\* labelled with the food's name, real when Units is "continuous" and integer
\* otherwise (banana and avocado integer, the other four real); so
\* quantities[ind] is the variable named food for every (ind, food) of
\* enumerate(foods.keys()), and total_mix gives each variable the category
\* value of its own food.
C3_OneVariablePerFood ==
    pc # "variables" =>
      /\ Len(quantities) = Len(foods_keys)
      /\ \A i \in 1..Len(foods_keys) :
           /\ DOMAIN quantities[i].variables = {foods_keys[i]}
           /\ DOMAIN quantities[i].linear = {foods_keys[i]}
           /\ quantities[i].linear[foods_keys[i]] = Num(1)
           /\ quantities[i].variables[foods_keys[i]].vartype =
                IF foods[foods_keys[i]].Units = "continuous" THEN "REAL"
                ELSE "INTEGER"
      /\ {food \in Foods : VariableOf(food).vartype = "INTEGER"}
           = {"banana", "avocado"}
      /\ {food \in Foods : VariableOf(food).vartype = "REAL"}
           = {"rice", "tofu", "lentils", "bread"}
      /\ \A category \in {"Calories", "Protein", "Fat", "Carbs", "Fiber",
                          "Taste", "Cost"} :
           LET mix == total_mix(quantities, category).linear
           IN  /\ DOMAIN mix = Foods
               /\ \A food \in Foods : mix[food] = FoodValue(food, category)

\* The calorie constraint has been built from the variables.
C3_Witness ==
    /\ pc = "nutrients"
    /\ Len(cqm.constraints) = 1
    /\ cqm.constraints[1].lhs["banana"] = Num(90)
    /\ cqm.variables["banana"].vartype = "INTEGER"

\* alpha*(-taste) + beta*cost of a sample, from the data.
Weighted(sample, alpha, beta) ==
    RAdd(RMul(Num(alpha), RNeg(DirectTotal(sample, "Taste"))),
         RMul(Num(beta), DirectTotal(sample, "Cost")))

\* The assignments of SamplePool inside the domains of a model, each with the
\* value of the model's objective, its total taste and its total cost.
AdmittedValues(model) ==
    {[sample |-> SamplePool[i],
      value |-> Value(model.objective, SamplePool[i]),
      taste |-> DirectTotal(SamplePool[i], "Taste"),
      cost |-> DirectTotal(SamplePool[i], "Cost")] :
        i \in {j \in 1..Len(SamplePool) :
                 InDomain(model.variables, SamplePool[j])}}

\* C4: the objective of the first solve is 1*(-total taste) + 6*(total cost):
\* the coefficient of food f is -Taste(f) + 6*Cost(f); of two assignments of
\* equal cost the tastier has strictly lower objective value, and of two of
\* equal taste the cheaper has strictly lower objective value.
C4_CombinedObjective ==
    /\ pc \in {"calories", "nutrients", "solve", "filter", "best",
               "print_diet", "tune"} =>
         cqm.objective = [food \in Foods |->
                            RAdd(RNeg(FoodValue(food, "Taste")),
                                 RMul(Num(6), FoodValue(food, "Cost")))]
    /\ Len(submitted) >= 1 =>
         /\ \A food \in Foods :
              submitted[1].objective[food]
                = RAdd(RNeg(FoodValue(food, "Taste")),
                       RMul(Num(6), FoodValue(food, "Cost")))
         /\ \A a \in AdmittedValues(submitted[1]) :
              a.value = Weighted(a.sample, 1, 6)
         /\ \A a, b \in AdmittedValues(submitted[1]) :
              /\ (a.cost = b.cost /\ RLt(b.taste, a.taste))
                   => RLt(a.value, b.value)
              /\ (a.taste = b.taste /\ RLt(a.cost, b.cost))
                   => RLt(a.value, b.value)
         /\ \A row \in sampleset : row.energy = Weighted(row.sample, 1, 6)

\* The first solve has returned two samples of equal cost, the tastier with
\* the lower energy.
C4_Witness ==
    /\ pc = "filter"
    /\ \E r1, r2 \in sampleset :
         /\ DirectTotal(r1.sample, "Cost") = DirectTotal(r2.sample, "Cost")
         /\ RLt(DirectTotal(r2.sample, "Taste"), DirectTotal(r1.sample, "Taste"))
         /\ RLt(r1.energy, r2.energy)

\* C5: a submitted model has exactly five constraints, each labelled with its
\* category: Calories requires the total calories <= max_calories, and each
\* nutrient n of min_nutrients requires the total of n >= min_nutrients[n];
\* a returned sample is feasible exactly when all five hold.
C5_FiveConstraints ==
    /\ \A k \in 1..Len(submitted) :
         LET cs == submitted[k].constraints
         IN  /\ Len(cs) = 5
             /\ {cs[i].label : i \in 1..Len(cs)}
                  = {"Calories", "Protein", "Fat", "Carbs", "Fiber"}
             /\ \A i \in 1..Len(cs) :
                  /\ cs[i].lhs = [food \in Foods |-> FoodValue(food, cs[i].label)]
                  /\ cs[i].label = "Calories" =>
                       cs[i].sense = "<=" /\ cs[i].rhs = Num(max_calories)
                  /\ cs[i].label # "Calories" =>
                       /\ cs[i].label \in DOMAIN min_nutrients
                       /\ cs[i].sense = ">="
                       /\ cs[i].rhs = Num(min_nutrients[cs[i].label])
    /\ \A row \in ReturnedRows : row.is_feasible <=> DirectFeasible(row.sample)

\* The first solve has returned a feasible and an infeasible sample.
C5_Witness ==
    /\ Len(submitted) = 1
    /\ \E r1, r2 \in sampleset : r1.is_feasible /\ ~r2.is_feasible

Rounded(sample) == [food \in DOMAIN sample |-> round(sample[food], 1)]

CountLines == {stdout[k] : k \in {j \in 1..Len(stdout) : stdout[j][1] = "Count"}}

FirstFiltered ==
    pc \notin {"variables", "bounds", "instantiate", "objective", "calories",
               "nutrients", "solve", "filter"}

FirstBestChosen ==
    \/ pc \in {"print_diet", "tune", "solve_taste", "filter_taste", "best_taste",
               "print_energy", "print_diet_taste", "done"}
    \/ pc = "raised" /\ Len(submitted) = 2

SecondBestChosen == pc \in {"print_energy", "print_diet_taste", "done"}

\* C6: feasible_sampleset holds exactly the returned samples that are
\* feasible, so the feasible count printed never exceeds the total; the
\* sample taken and printed as best is a feasible returned sample that no
\* feasible returned sample beats on energy, whatever the energy of the
\* infeasible ones.  The same holds of the second solve.
C6_BestIsFeasibleMinimum ==
    /\ FirstFiltered =>
         /\ feasible_sampleset = {r \in sampleset : DirectFeasible(r.sample)}
         /\ CountLines = {<<"Count", Cardinality(feasible_sampleset),
                            Cardinality(sampleset)>>}
         /\ Cardinality(feasible_sampleset) <= Cardinality(sampleset)
    /\ FirstBestChosen =>
         /\ DirectFeasible(best)
         /\ \E row \in feasible_sampleset :
              /\ row.sample = best
              /\ \A o \in sampleset :
                   DirectFeasible(o.sample) => ~RLt(o.energy, row.energy)
    /\ pc \in {"best_taste", "print_energy", "print_diet_taste", "done"} =>
         feasible_sampleset_taste
           = {r \in sampleset_taste : DirectFeasible(r.sample)}
    /\ SecondBestChosen =>
         /\ best_taste \in feasible_sampleset_taste
         /\ \A o \in sampleset_taste :
              DirectFeasible(o.sample) => ~RLt(o.energy, best_taste.energy)
    /\ DietLines \subseteq
         (IF FirstBestChosen /\ pc # "print_diet" THEN {Rounded(best)} ELSE {})
         \cup (IF pc = "done" THEN {Rounded(best_taste.sample)} ELSE {})
    /\ pc = "tune" => Rounded(best) \in DietLines
    /\ pc = "done" => Rounded(best_taste.sample) \in DietLines

\* The best diet has been printed although an infeasible returned sample has
\* strictly lower energy.
C6_Witness ==
    /\ pc = "tune"
    /\ Rounded(best) \in DietLines
    /\ \E o, row \in sampleset :
         /\ ~o.is_feasible
         /\ row.sample = best
         /\ RLt(o.energy, row.energy)

SecondObjectiveSet ==
    \/ pc \in {"solve_taste", "filter_taste", "best_taste", "print_energy",
               "print_diet_taste", "done"}
    \/ pc = "raised" /\ Len(submitted) = 2

\* C7: the tuning step replaces only the objective: afterwards the objective
\* is minus the total taste (no cost term), and the variables, their bounds
\* and the five constraints are those of the first submission; so the second
\* solve has the feasibility conditions of the first, and the energy of its
\* best sample is minus that sample's total taste.
C7_TuningReplacesOnlyObjective ==
    /\ pc = "tune" => cqm = submitted[1]
    /\ SecondObjectiveSet =>
         /\ cqm.objective = [food \in Foods |-> RNeg(FoodValue(food, "Taste"))]
         /\ cqm.variables = submitted[1].variables
         /\ cqm.constraints = submitted[1].constraints
         /\ \A i \in 1..Len(quantities) :
              quantities[i].variables[foods_keys[i]]
                = submitted[1].variables[foods_keys[i]]
    /\ Len(submitted) = 2 =>
         /\ submitted[2] = cqm
         /\ \A row \in sampleset_taste :
              /\ row.is_feasible <=> DirectFeasible(row.sample)
              /\ row.energy = Weighted(row.sample, 1, 0)
    /\ SecondBestChosen =>
         best_taste.energy = RNeg(DirectTotal(best_taste.sample, "Taste"))

\* The second solve has chosen the tastiest diet (taste 143), which is not
\* the best of the first solve.
C7_Witness ==
    /\ pc = "done"
    /\ best_taste.energy = Num(-143)
    /\ best # best_taste.sample
    /\ <<"Energy", Num(-143)>> \in {stdout[k] : k \in {j \in 1..Len(stdout) : stdout[j][1] = "Energy"}}

\* A model is complete: six bounded variables, an objective over them and
\* the five constraints.
Complete(model) ==
    /\ DOMAIN model.variables = Foods
    /\ \A food \in Foods :
         /\ model.variables[food].upper_bound # NoBound
         /\ RMul(model.variables[food].upper_bound, FoodValue(food, "Calories"))
              = Num(max_calories)
    /\ DOMAIN model.objective = Foods
    /\ Len(model.constraints) = 5

\* What has been submitted: at most two complete models, the first with the
\* combined objective, the second with the taste-only objective, made after
\* the first best diet was printed and differing from the first in nothing
\* but the objective.
C8_Submissions ==
    /\ Len(submitted) <= 2
    /\ \A k \in 1..Len(submitted) : Complete(submitted[k])
    /\ Len(submitted) >= 1 =>
         \A food \in Foods :
           submitted[1].objective[food] =
             RAdd(RNeg(FoodValue(food, "Taste")),
                  RMul(Num(6), FoodValue(food, "Cost")))
    /\ Len(submitted) = 2 =>
         /\ \A food \in Foods :
              submitted[2].objective[food] = RNeg(FoodValue(food, "Taste"))
         /\ Rounded(best) \in DietLines
         /\ submitted[2].variables = submitted[1].variables
         /\ submitted[2].constraints = submitted[1].constraints

\* A step that submits hands over the complete model as it is; a step taken
\* after a submission changes no variable, bound or constraint.
C8_Step ==
    /\ Len(submitted') > Len(submitted) =>
         /\ Complete(cqm)
         /\ submitted' = Append(submitted, cqm)
         /\ cqm' = cqm
    /\ Len(submitted) >= 1 =>
         /\ quantities' = quantities
         /\ cqm'.variables = cqm.variables
         /\ cqm'.constraints = cqm.constraints
         /\ \A k \in 1..Len(submitted) : submitted'[k] = submitted[k]

\* C8: the model is complete when it is submitted (six upper bounds, the
\* objective, five constraints); it is submitted at most twice, first with
\* the combined objective and then, only after the first best diet has been
\* printed, with the taste-only objective; no bound and no constraint is
\* added or changed once the model has been submitted.
C8_CompleteBeforeSubmitted == [](C8_Submissions) /\ [][C8_Step]_vars

\* The script has run to its end with both submissions made.
C8_Witness ==
    /\ pc = "done"
    /\ Len(submitted) = 2
    /\ submitted[1].objective # submitted[2].objective

====
